---------------------------- MODULE Spec2Model ----------------------------
(***************************************************************************)
(* Model of src/main.cpp: the recursive Sierpinski vertex generator        *)
(* (initSierpinski, midpoint, addPosAndColor, addSierpinskiPts), the       *)
(* upload of its stream (sierpinskiOpenGLObj) and the render loop of main. *)
(*                                                                         *)
(* Spec runs the generator on every depth bound up to MaxD and on several  *)
(* root triangles, keeping the whole vector.  SpecProgram runs the program *)
(* as built (depth bound 8, 177138 floats); there the vector is modelled   *)
(* by its size alone (traced = FALSE), its elements are not kept.          *)
(*                                                                         *)
(* The recursion is run on an explicit call stack, one frame per active    *)
(* addSierpinskiPts call, one step per source statement group.             *)
(*                                                                         *)
(* Floats.  A float is an integer count of units of 2^-27: every value the *)
(* generator handles here (coordinates in [-1, 1] that are dyadic, the     *)
(* colour constants, depth/maxDepth for maxDepth <= 8) is a float on that  *)
(* grid.  RoundToFloat rounds a rational to the nearest float of 24        *)
(* significant bits, ties to even, as IEEE-754 binary32 does.  The not-a-  *)
(* number float is encoded by NaN, a value outside the range of the grid.  *)
(***************************************************************************)
EXTENDS Integers, Sequences, FiniteSets

VARIABLES
    maxDepth,   \* the value of the macro MAX_SIERPINSKI_DEPTH of the build
    root,       \* the corner points a, b, c initSierpinski starts from
    points,     \* std::vector<float> points: its size() and its elements
    traced,     \* whether the model keeps the elements and the history
    stack,      \* the active addSierpinskiPts calls, innermost last
    pc,         \* position of main / sierpinskiOpenGLObj
    vboBytes,   \* GL_BUFFER_SIZE of triVBO, in bytes
    drawCount,  \* the count of the last glDrawArrays call
    drawn,      \* whether glDrawArrays has been called
    shouldClose,\* glfwWindowShouldClose(window)
    emitted,    \* history: the triangles appended so far, in order
    maxActive,  \* history: the largest number of simultaneously active calls
    divByZero   \* history: whether a division by zero was evaluated

vars == <<maxDepth, root, points, traced, stack, pc, vboBytes, drawCount, drawn,
          shouldClose, emitted, maxActive, divByZero>>

---------------------------------------------------------------------------
(* Bounds and program constants *)

\* Largest maximum depth the generator is run with in Spec.
MaxD == 3

MAX_SIERPINSKI_DEPTH == 8

SizeofFloat == 4

\* 1.0f, 0.25f, 0.75f on the grid of 2^-27.
ONE == 2^27
QUARTER == 2^25
THREEQ == 3 * 2^25

\* Encoding of the NaN float.
NaN == -(2^30)

---------------------------------------------------------------------------
(* Float arithmetic *)

Abs(x) == IF x < 0 THEN -x ELSE x

Sign(x) == IF x < 0 THEN -1 ELSE 1

Max(x, y) == IF x < y THEN y ELSE x

\* The spacing of floats around a magnitude of q units: 24 significant bits.
RECURSIVE Ulp(_)
Ulp(q) == IF q < 2^24 THEN 1 ELSE 2 * Ulp(q \div 2)

\* n / d rounded to the nearest integer, ties to even (n >= 0, d > 0).
RoundHalfEven(n, d) ==
    LET q == n \div d
        r == n % d
    IN  IF 2 * r > d \/ (2 * r = d /\ q % 2 = 1) THEN q + 1 ELSE q

\* The float nearest to num / den units (den # 0).
RoundToFloat(num, den) ==
    LET mag == Abs(num)
        div == Abs(den)
        u   == Ulp(mag \div div)
    IN  Sign(num) * Sign(den) * u * RoundHalfEven(mag, div * u)

\* x + y on floats.
FloatAdd(x, y) == RoundToFloat(x + y, 1)

\* s / 2.0, stored into a float.
FloatHalf(s) == RoundToFloat(s, 2)

---------------------------------------------------------------------------
(* The generator *)

\* The corners of initSierpinski: (-0.5,-0.5,0), (0,0.5,0), (0.5,-0.5,0).
InitCorners ==
    << <<-(2^26), -(2^26), 0>>, <<0, 2^26, 0>>, <<2^26, -(2^26), 0>> >>

\* The root triangles the generator is run on in Spec: the program's, a
\* scalene one with a non-zero z, and a degenerate (collinear) one.
Corners ==
    { InitCorners,
      << <<-(2^27), -(2^26), 2^25>>, <<2^25, 2^27, -(2^26)>>, <<2^27, 0, 2^26>> >>,
      << <<-(2^26), 0, 0>>, <<0, 0, 0>>, <<2^26, 0, 0>> >> }

\* midpoint: point_t holds floats, so a.x + b.x is a float sum, divided by
\* the double 2.0 and narrowed to float by the store into p.x.
midpoint(a, b) ==
    << FloatHalf(FloatAdd(a[1], b[1])),
       FloatHalf(FloatAdd(a[2], b[2])),
       FloatHalf(FloatAdd(a[3], b[3])) >>

\* The values depth * 1.0 / MAX_SIERPINSKI_DEPTH can take as a float.  With
\* a zero divisor the quotient 0.0 / 0 is NaN under IEEE-754 and undefined
\* in C++: any float.
DivZeroOutcomes == {NaN, 0, ONE}

GreenOutcomes(depth) ==
    IF maxDepth = 0 THEN DivZeroOutcomes
    ELSE {RoundToFloat(depth * ONE, maxDepth)}

\* std::vector<float>::push_back.
push_back(v, x) ==
    [size |-> v.size + 1,
     data |-> IF traced THEN Append(v.data, x) ELSE v.data]

addPosAndColorSwapped(p, g, v) ==
    push_back(push_back(push_back(push_back(push_back(push_back(v,
        p[1]), p[2]), p[3]), QUARTER), THREEQ), g)

addPosAndColorNoBlue(p, g, v) ==
    push_back(push_back(push_back(push_back(push_back(v,
        p[1]), p[2]), p[3]), QUARTER), g)

\* points after addPosAndColor(p, depth, points), g the quotient computed.
addPosAndColor(p, g, v) ==
    push_back(push_back(push_back(push_back(push_back(push_back(v,
        p[1]), p[2]), p[3]), QUARTER), g), THREEQ)

GuardStrict(depth) == depth < maxDepth

GuardLoose(depth) == depth <= maxDepth + 1

\* The test of addSierpinskiPts.
Guard(depth) == depth <= maxDepth

Frame(a, b, c, depth, node) ==
    [a |-> a, b |-> b, c |-> c, depth |-> depth, node |-> node, at |-> "test"]

Child1(f) == Frame(f.a, midpoint(f.a, f.b), midpoint(f.a, f.c),
                   f.depth + 1, 3 * f.node + 1)

Child2Swapped(f) == Frame(f.c, midpoint(f.a, f.c), midpoint(f.b, f.c),
                          f.depth + 1, 3 * f.node + 2)

Child2(f) == Frame(f.b, midpoint(f.a, f.b), midpoint(f.b, f.c),
                   f.depth + 1, 3 * f.node + 2)

Child3(f) == Frame(f.c, midpoint(f.a, f.c), midpoint(f.b, f.c),
                   f.depth + 1, 3 * f.node + 3)

FollowPostOrder(at) ==
    CASE at = "test"  -> "call1"
      [] at = "call1" -> "call2"
      [] at = "call2" -> "call3"
      [] at = "call3" -> "emit"
      [] at = "emit"  -> "ret"

\* Program order inside the body of addSierpinskiPts.
Follow(at) ==
    CASE at = "test"  -> "emit"
      [] at = "emit"  -> "call1"
      [] at = "call1" -> "call2"
      [] at = "call2" -> "call3"
      [] at = "call3" -> "ret"

Top == stack[Len(stack)]

Rest == SubSeq(stack, 1, Len(stack) - 1)

Goto(at) == Rest \o <<[Top EXCEPT !.at = at]>>

\* The state when sierpinskiOpenGLObj has built the empty vector.
Start(depthBound, corners, keep) ==
    /\ maxDepth = depthBound
    /\ root = corners
    /\ points = [size |-> 0, data |-> <<>>]
    /\ traced = keep
    /\ stack = <<>>
    /\ pc = "start"
    /\ vboBytes = 0
    /\ drawCount = 0
    /\ drawn = FALSE
    /\ shouldClose = FALSE
    /\ emitted = <<>>
    /\ maxActive = 0
    /\ divByZero = FALSE

\* The generator over its inputs: any depth bound from -1 to MaxD, any of
\* the root triangles.
Init == \E depthBound \in -1 .. MaxD, corners \in Corners :
            Start(depthBound, corners, TRUE)

\* sierpinskiOpenGLObj calls initSierpinski, which calls addSierpinskiPts.
InitSierpinski ==
    /\ pc = "start"
    /\ pc' = "generate"
    /\ stack' = <<Frame(root[1], root[2], root[3], 0, 0)>>
    /\ maxActive' = Max(maxActive, 1)
    /\ UNCHANGED <<maxDepth, root, traced, points, vboBytes, drawCount, drawn,
                   shouldClose, emitted, divByZero>>

\* The test of addSierpinskiPts succeeds.
Test ==
    /\ pc = "generate" /\ stack # <<>>
    /\ Top.at = "test"
    /\ Guard(Top.depth)
    /\ stack' = Goto(Follow("test"))
    /\ UNCHANGED <<maxDepth, root, traced, points, pc, vboBytes, drawCount, drawn,
                   shouldClose, emitted, maxActive, divByZero>>

\* The call returns to its caller; the outermost returns to
\* sierpinskiOpenGLObj.
Leave ==
    /\ stack' = Rest
    /\ pc' = IF Len(stack) = 1 THEN "generated" ELSE pc

\* The test fails and the call returns at once.
Skip ==
    /\ pc = "generate" /\ stack # <<>>
    /\ Top.at = "test"
    /\ ~Guard(Top.depth)
    /\ Leave
    /\ UNCHANGED <<maxDepth, root, traced, points, vboBytes, drawCount, drawn,
                   shouldClose, emitted, maxActive, divByZero>>

\* The three addPosAndColor calls.
Emit ==
    /\ pc = "generate" /\ stack # <<>>
    /\ Top.at = "emit"
    /\ \E ga \in GreenOutcomes(Top.depth),
          gb \in GreenOutcomes(Top.depth),
          gc \in GreenOutcomes(Top.depth) :
          points' = addPosAndColor(Top.c, gc,
                      addPosAndColor(Top.b, gb,
                        addPosAndColor(Top.a, ga, points)))
    /\ emitted' = IF traced
                  THEN Append(emitted, [node |-> Top.node, depth |-> Top.depth,
                                        tri |-> <<Top.a, Top.b, Top.c>>])
                  ELSE emitted
    /\ divByZero' = (divByZero \/ maxDepth = 0)
    /\ stack' = Goto(Follow("emit"))
    /\ UNCHANGED <<maxDepth, root, traced, pc, vboBytes, drawCount, drawn,
                   shouldClose, maxActive>>

Call(at, child) ==
    /\ pc = "generate" /\ stack # <<>>
    /\ Top.at = at
    /\ stack' = Append(Goto(Follow(at)), child)
    /\ maxActive' = Max(maxActive, Len(stack) + 1)
    /\ UNCHANGED <<maxDepth, root, traced, points, pc, vboBytes, drawCount, drawn,
                   shouldClose, emitted, divByZero>>

Call1 == Call("call1", Child1(Top))

Call2 == Call("call2", Child2(Top))

Call3 == Call("call3", Child3(Top))

\* The end of the body of addSierpinskiPts.
Return ==
    /\ pc = "generate" /\ stack # <<>>
    /\ Top.at = "ret"
    /\ Leave
    /\ UNCHANGED <<maxDepth, root, traced, points, vboBytes, drawCount, drawn,
                   shouldClose, emitted, maxActive, divByZero>>

\* The rest of sierpinskiOpenGLObj: the stream is copied to an array of
\* points.size() floats and glBufferData uploads sizeof(vertices) bytes.
Upload ==
    /\ pc = "generated"
    /\ vboBytes' = SizeofFloat * points.size
    /\ pc' = "loop"
    /\ UNCHANGED <<maxDepth, root, traced, points, stack, drawCount, drawn,
                   shouldClose, emitted, maxActive, divByZero>>

\* One iteration of the render loop: processInput may request the close,
\* the buffer size is queried and passed to glDrawArrays as the count.
RenderFrame ==
    /\ pc = "loop" /\ ~shouldClose
    /\ \E esc \in BOOLEAN : shouldClose' = esc
    /\ drawCount' = vboBytes
    /\ drawn' = TRUE
    /\ UNCHANGED <<maxDepth, root, traced, points, stack, pc, vboBytes, emitted,
                   maxActive, divByZero>>

\* The loop ends and the buffers are deleted.
Exit ==
    /\ pc = "loop" /\ shouldClose
    /\ pc' = "exit"
    /\ vboBytes' = 0
    /\ UNCHANGED <<maxDepth, root, traced, points, stack, drawCount, drawn,
                   shouldClose, emitted, maxActive, divByZero>>

Generate == Test \/ Skip \/ Emit \/ Call1 \/ Call2 \/ Call3 \/ Return

Next ==
    \/ InitSierpinski
    \/ Test
    \/ Skip
    \/ Emit
    \/ Call1
    \/ Call2
    \/ Call3
    \/ Return
    \/ Upload
    \/ RenderFrame
    \/ Exit

Spec == Init /\ [][Next]_vars

\* The same inputs, the vector modelled by its size alone.
InitSizeOnly == \E depthBound \in -1 .. MaxD, corners \in Corners :
                    Start(depthBound, corners, FALSE)

\* The generator runs to completion: it is sequential code with no wait.
FairSpec ==
    InitSizeOnly /\ [][Next]_vars /\ WF_vars(InitSierpinski \/ Generate)

\* The program as built: MAX_SIERPINSKI_DEPTH and the corners of
\* initSierpinski.
InitProgram == Start(MAX_SIERPINSKI_DEPTH, InitCorners, FALSE)

SpecProgram == InitProgram /\ [][Next]_vars

---------------------------------------------------------------------------
(* Vocabulary of the properties *)

\* The generation has run to completion.
Done == pc \in {"generated", "loop", "exit"}

RECURSIVE Pow3(_)
Pow3(n) == IF n <= 0 THEN 1 ELSE 3 * Pow3(n - 1)

\* 3 * (3^(D+1) - 1) / 2
VertexCount(D) == (3 * (Pow3(D + 1) - 1)) \div 2

NumRecords == Len(points.data) \div 6

\* The k-th six-float record of the stream and its fields.
Field(k, i) == points.data[6 * (k - 1) + i]

Position(k) == <<Field(k, 1), Field(k, 2), Field(k, 3)>>

Green(k) == Field(k, 5)

Positions == [k \in 1 .. NumRecords |-> Position(k)]

\* The records of the t-th emitted triangle are 3t-2, 3t-1, 3t.
RecordOf(t, j) == 3 * (t - 1) + j

\* The recursion tree: the root is node 0, the calls made by node n are
\* 3n+1, 3n+2, 3n+3.
Parent(n) == (n - 1) \div 3

RECURSIVE IsAncestor(_, _)
IsAncestor(m, n) ==
    /\ n > m
    /\ n > 0
    /\ (Parent(n) = m \/ IsAncestor(m, Parent(n)))

\* The exact componentwise mean, NaN where it is no float of the grid.
ExactMean(p, q) ==
    [i \in 1 .. 3 |-> IF (p[i] + q[i]) % 2 = 0
                       THEN (p[i] + q[i]) \div 2 ELSE NaN]

\* The points of the depth-first pre-order walk the algorithm describes.
RECURSIVE PreOrder(_, _, _, _)
PreOrder(a, b, c, d) ==
    IF d > maxDepth THEN <<>>
    ELSE <<a, b, c>>
         \o PreOrder(a, ExactMean(a, b), ExactMean(a, c), d + 1)
         \o PreOrder(b, ExactMean(a, b), ExactMean(b, c), d + 1)
         \o PreOrder(c, ExactMean(a, c), ExactMean(b, c), d + 1)

IsPrefix(s, t) == Len(s) <= Len(t) /\ s = SubSeq(t, 1, Len(s))

---------------------------------------------------------------------------
(* C1 *)

\* C1: for every maximum depth D >= 0 and any corners, the completed stream
\* holds exactly 3 * (3^(D+1) - 1) / 2 vertex records, six floats each.
C1_StreamLength ==
    (Done /\ maxDepth >= 0) =>
        /\ Len(points.data) = 6 * VertexCount(maxDepth)
        /\ points.size = 6 * VertexCount(maxDepth)
        /\ NumRecords = VertexCount(maxDepth)

C1_Witness ==
    /\ Done /\ maxDepth = 2 /\ root # InitCorners
    /\ Len(points.data) = 234

---------------------------------------------------------------------------
(* C2 *)

\* C2: the stream is emitted in depth-first pre-order: a call appends a, b,
\* c, then the whole subtree of (a, mid(a,b), mid(a,c)), then that of
\* (b, mid(a,b), mid(b,c)), then that of (c, mid(a,c), mid(b,c)), mid the
\* componentwise mean; for maxDepth = 1 the stream is exactly the twelve
\* vertices a, b, c and the three child triangles in that order.
C2_PreOrder ==
    LET a == root[1]
        b == root[2]
        c == root[3]
        walk == PreOrder(a, b, c, 0)
    IN  /\ Len(points.data) % 6 = 0
        /\ IsPrefix(Positions, walk)
        /\ Done => Positions = walk
        /\ (Done /\ maxDepth = 1) =>
              Positions = << a, b, c,
                             a, ExactMean(a, b), ExactMean(a, c),
                             b, ExactMean(a, b), ExactMean(b, c),
                             c, ExactMean(a, c), ExactMean(b, c) >>

C2_Witness ==
    /\ Done /\ maxDepth = 1 /\ root = InitCorners
    /\ NumRecords = 12
    /\ Position(5) = <<-(2^25), 0, 0>>
    /\ Position(9) = <<2^25, 0, 0>>
    /\ Position(12) = <<2^25, 0, 0>>

---------------------------------------------------------------------------
(* C3 *)

\* C3 as stated: a triangle of smaller depth always precedes, in the
\* stream, a triangle of greater depth.
C3_ShallowerFirst ==
    \A i, j \in 1 .. Len(emitted) :
        emitted[i].depth < emitted[j].depth => i < j

\* C3, amended: the records of a triangle precede the records of every
\* triangle produced by subdividing it, directly or through further
\* subdivisions; every triangle but the root comes after its parent, whose
\* depth is one less.
C3_AncestorFirst ==
    /\ Len(points.data) = 18 * Len(emitted)
    /\ \A i, j \in 1 .. Len(emitted) :
          IsAncestor(emitted[i].node, emitted[j].node) =>
              /\ i < j
              /\ emitted[i].depth < emitted[j].depth
    /\ \A j \in 1 .. Len(emitted) :
          emitted[j].node # 0 =>
              \E i \in 1 .. j - 1 :
                  /\ emitted[i].node = Parent(emitted[j].node)
                  /\ emitted[i].depth + 1 = emitted[j].depth

\* A depth-2 triangle of the first subtree lies before the depth-1 triangle
\* of the second subtree, and after its own ancestors.
C3_Witness ==
    /\ Done /\ maxDepth >= 2
    /\ \E i, j, k \in 1 .. Len(emitted) :
          /\ i < j /\ j < k
          /\ IsAncestor(emitted[i].node, emitted[j].node)
          /\ emitted[j].depth = 2
          /\ emitted[k].depth = 1

---------------------------------------------------------------------------
(* C4 *)

ChildrenOf(k) ==
    { j \in 1 .. Len(emitted) :
        /\ emitted[j].node # 0
        /\ Parent(emitted[j].node) = emitted[k].node
        /\ emitted[j].depth = emitted[k].depth + 1 }

\* C4: every emitted triangle appends exactly three records; once the
\* generation is complete it has exactly three emitted children, one depth
\* deeper, when its depth is below maxDepth and none when it is maxDepth;
\* no call deeper than maxDepth appends, so at every point the stream
\* holds records of depths 0 .. maxDepth only.
C4_ThreeChildrenOrNone ==
    /\ Len(points.data) = 18 * Len(emitted)
    /\ \A k \in 1 .. Len(emitted) :
          /\ emitted[k].depth \in 0 .. maxDepth
          /\ \A j \in 1 .. Len(emitted) :
                emitted[j].node = emitted[k].node => j = k
          /\ Cardinality(ChildrenOf(k)) <= 3
          /\ emitted[k].depth = maxDepth => ChildrenOf(k) = {}
          /\ (Done /\ emitted[k].depth < maxDepth) =>
                Cardinality(ChildrenOf(k)) = 3

C4_Witness ==
    /\ Done /\ maxDepth = 2
    /\ Len(emitted) = 13
    /\ \E k, l \in 1 .. Len(emitted) :
          /\ emitted[k].depth = 1 /\ Cardinality(ChildrenOf(k)) = 3
          /\ emitted[l].depth = 2 /\ ChildrenOf(l) = {}

---------------------------------------------------------------------------
(* C5 *)

\* green is depth / maxDepth to within the relative precision 2^-24 of a
\* float: |g * maxDepth - depth| <= 2^-24 * depth, in units of 2^-27.
IsQuotient(g, depth) ==
    /\ g # NaN
    /\ Abs(g * maxDepth - depth * ONE) <= 8 * depth

---------------------------------------------------------------------------
(* C6 *)

\* C6: with maximum depth 0 the generation divides by no zero and the
\* stream is the three corners a, b, c in order, each coloured
\* (0.25, 0, 0.75).
C6_ZeroDepthGreenZero ==
    (Done /\ maxDepth = 0) =>
        /\ ~divByZero
        /\ points.data =
              << root[1][1], root[1][2], root[1][3], QUARTER, 0, THREEQ,
                 root[2][1], root[2][2], root[2][3], QUARTER, 0, THREEQ,
                 root[3][1], root[3][2], root[3][3], QUARTER, 0, THREEQ >>

---------------------------------------------------------------------------
(* C7 *)

\* C7: with a negative maximum depth the call started at depth 0 makes no
\* recursive call, appends nothing and returns at once: the stream stays
\* empty.
C7_NegativeDepthEmpty ==
    maxDepth < 0 =>
        /\ points.size = 0
        /\ points.data = <<>>
        /\ emitted = <<>>
        /\ Len(stack) <= 1
        /\ maxActive <= 1
        /\ pc = "generate" => (Top.depth = 0 /\ ENABLED Skip /\ ~ENABLED Test)
        /\ Done => (maxActive = 1 /\ stack = <<>>)

C7_Witness ==
    /\ maxDepth = -1
    /\ pc = "loop"
    /\ maxActive = 1
    /\ points.size = 0
    /\ vboBytes = 0

---------------------------------------------------------------------------
(* C8 *)

\* C8 as stated: for maxDepth >= 0 the largest number of simultaneously
\* active addSierpinskiPts calls is maxDepth + 1.
C8_StackDepthPlusOne ==
    (Done /\ maxDepth >= 0) => maxActive = maxDepth + 1

\* C8, amended: for every maxDepth >= 0 the generation terminates, and the
\* largest number of simultaneously active addSierpinskiPts calls is
\* maxDepth + 2: the calls of depths 0 .. maxDepth + 1, the deepest of
\* which fails the test and returns without appending.
C8_TerminatesStackDepthPlusTwo ==
    /\ (maxDepth >= 0) ~> Done
    /\ [](maxDepth >= 0 =>
            /\ Len(stack) <= maxDepth + 2
            /\ maxActive <= maxDepth + 2
            /\ \A i \in 1 .. Len(stack) : stack[i].depth = i - 1
            /\ Done => maxActive = maxDepth + 2)

C8_Witness ==
    /\ Done /\ maxDepth = 3 /\ maxActive = 5 /\ stack = <<>>

---------------------------------------------------------------------------
(* C9 *)

\* C9 as stated: with MAX_SIERPINSKI_DEPTH = 8 the stream built by
\* initSierpinski holds 9,837 vertices, 59,022 floats.
C9_ReferenceCount ==
    (Done /\ maxDepth = 8) =>
        /\ points.size = 59022
        /\ points.size \div 6 = 9837

\* C9, amended: with MAX_SIERPINSKI_DEPTH = 8 the stream built by
\* initSierpinski holds 29,523 vertices (9,841 triangles), 177,138 floats.
C9_ProgramCount ==
    /\ maxDepth = MAX_SIERPINSKI_DEPTH
    /\ points.size <= 177138
    /\ Done =>
          /\ points.size = 177138
          /\ points.size \div 6 = 29523
          /\ points.size \div 18 = 9841
          /\ points.size = 6 * VertexCount(MAX_SIERPINSKI_DEPTH)

C9_Witness ==
    /\ pc = "loop" /\ maxDepth = 8 /\ root = InitCorners
    /\ points.size = 177138
    /\ vboBytes = 708552

---------------------------------------------------------------------------
(* C10 *)

\* The number of six-float records in the buffer of triVBO.
UploadedRecords == vboBytes \div (6 * SizeofFloat)

\* C10: in every iteration of the render loop the count passed to
\* glDrawArrays equals the number of six-float records uploaded, so the
\* draw addresses no vertex beyond the end of the buffer.
C10_DrawCountIsRecordCount ==
    (pc = "loop" /\ drawn) =>
        /\ drawCount = UploadedRecords
        /\ drawCount <= UploadedRecords

===========================================================================
